---- MODULE Spec2Model ----
(***************************************************************************)
(* A model of src/app.py, the Streamlit LaTeX formula builder.             *)
(*                                                                         *)
(* One user event (a button click, a committed text edit) triggers one run *)
(* of the script against st.session_state; an action of this module is one *)
(* such run.  Text is a sequence of one-character strings, so that         *)
(* str.strip, str.split and float are modelled by what they do.  The       *)
(* symbolic backend (sympy, parse_latex) is outside the repository: a      *)
(* Compute run draws the backend's outcome from BackendOutcomes.           *)
(* A text area is taken to show the value the script passes to it, so a    *)
(* run whose event is not a text edit sees new_input = input_formula and   *)
(* new_output = output_formula.                                            *)
(***************************************************************************)
EXTENDS Integers, Sequences, FiniteSets, TLC

VARIABLES
  input_formula,    \* st.session_state.input_formula
  output_formula,   \* st.session_state.output_formula
  formula_history,  \* st.session_state.formula_history, newest first
  favorites,        \* st.session_state.favorites
  compute_result,   \* st.session_state.compute_result: None or a markup text
  compute_error,    \* st.session_state.compute_error: "" or a message
  compute_mode,     \* st.session_state.compute_mode
  undo_stack,       \* st.session_state.undo_stack, oldest first
  redo_stack,       \* st.session_state.redo_stack
  var_input,        \* the "Variables" text input (widget state)
  substitutions     \* the script's substitutions dict, rebuilt on every run

vars ==
  <<input_formula, output_formula, formula_history, favorites, compute_result,
    compute_error, compute_mode, undo_stack, redo_stack, var_input, substitutions>>

(***************************************************************************)
(* Program constants.                                                      *)
(***************************************************************************)
UndoCap == 20

HistoryCap == 10

HistoryShown == 5

(***************************************************************************)
(* Bounds of the model.                                                    *)
(***************************************************************************)
\* Longest buffer text a symbol insert may produce.
MaxLen == 4

\* Longest "Variables" text.
MaxVarLen == 5

\* How many templates of the catalogue (in catalogue order) are offered.
NumTemplates == 12

\* How many snapshots other than the empty one the two stacks may hold
\* together before the specifications stop taking mutating actions.
MaxVaried == 1

\* How many snapshots the two stacks may hold together in Spec.
MaxDepth == 1

\* How many templates of the catalogue have their star button clicked.
NumStarred == 2

(***************************************************************************)
(* Python values.                                                          *)
(***************************************************************************)
\* None: a tuple no text equals (a text holds one-character strings only).
None == <<"None">>

\* Python truthiness of a value that is None or a str.
Truthy(v) == v # None /\ v # <<>>

Min(S) == CHOOSE m \in S : \A n \in S : m <= n

Max(S) == CHOOSE m \in S : \A n \in S : m >= n

\* s.strip(): drop leading and trailing whitespace.
strip(s) ==
  LET solid == {i \in 1..Len(s) : s[i] # " "}
  IN  IF solid = {} THEN <<>> ELSE SubSeq(s, Min(solid), Max(solid))

\* c in s, for a one-character c.
contains(s, c) == \E i \in 1..Len(s) : s[i] = c

\* formula in list.
InList(formula, list) == \E i \in 1..Len(list) : list[i] = formula

\* s.split(sep): the pieces between the separators, empty pieces kept.
RECURSIVE split(_, _)
split(s, sep) ==
  IF ~contains(s, sep)
  THEN <<s>>
  ELSE LET at == Min({i \in 1..Len(s) : s[i] = sep})
       IN  <<SubSeq(s, 1, at - 1)>> \o split(SubSeq(s, at + 1, Len(s)), sep)

\* s.split(sep, 1) of an s that contains sep: what is before the first sep, and
\* what is after it.
split_first(s, sep) ==
  LET at == Min({i \in 1..Len(s) : s[i] = sep})
  IN  <<SubSeq(s, 1, at - 1), SubSeq(s, at + 1, Len(s))>>

Digits == {"0", "1", "2", "3", "4", "5", "6", "7", "8", "9"}

DigitValue(c) ==
  CASE c = "0" -> 0 [] c = "1" -> 1 [] c = "2" -> 2 [] c = "3" -> 3 [] c = "4" -> 4
    [] c = "5" -> 5 [] c = "6" -> 6 [] c = "7" -> 7 [] c = "8" -> 8 [] c = "9" -> 9

\* Whether float(s) returns (rather than raising ValueError), for an s over
\* VarAlphabet: a non-empty run of digits.
float_ok(s) == s # <<>> /\ \A i \in 1..Len(s) : s[i] \in Digits

\* float(s) for such an s.
RECURSIVE float(_)
float(s) ==
  IF s = <<>> THEN 0 ELSE 10 * float(SubSeq(s, 1, Len(s) - 1)) + DigitValue(s[Len(s)])

(***************************************************************************)
(* Variable substitution parsing (the script's "Parse variables" block).   *)
(***************************************************************************)
\* {}: a dict is a function from variable names to numbers.
EmptyDict == [name \in {} |-> 0]

\* d[key] = value
dict_set(d, key, value) ==
  [name \in DOMAIN d \cup {key} |-> IF name = key THEN value ELSE d[name]]

\* The for loop over the pairs: a pair without "=" is skipped, a right side
\* float() rejects raises out of the loop, and the dict keeps what the earlier
\* pairs put in it.
RECURSIVE parse_pairs(_, _)
parse_pairs(pairs, subs) ==
  IF pairs = <<>>
  THEN [substitutions |-> subs, warning |-> FALSE]
  ELSE LET pair == Head(pairs)
       IN  IF ~contains(pair, "=")
           THEN parse_pairs(Tail(pairs), subs)
           ELSE LET var == strip(split_first(pair, "=")[1])
                    val == strip(split_first(pair, "=")[2])
                IN  IF ~float_ok(val)
                    THEN [substitutions |-> subs, warning |-> TRUE]
                    ELSE parse_pairs(Tail(pairs), dict_set(subs, var, float(val)))

\* substitutions = {}; if var_input: try: ... except: st.warning(...)
parse_variables(text) ==
  IF text = <<>>
  THEN [substitutions |-> EmptyDict, warning |-> FALSE]
  ELSE parse_pairs(split(text, ","), EmptyDict)

(***************************************************************************)
(* st.session_state as a record, and the handlers as functions of it.      *)
(***************************************************************************)
ss ==
  [input_formula   |-> input_formula,
   output_formula  |-> output_formula,
   formula_history |-> formula_history,
   favorites       |-> favorites,
   compute_result  |-> compute_result,
   compute_error   |-> compute_error,
   compute_mode    |-> compute_mode,
   undo_stack      |-> undo_stack,
   redo_stack      |-> redo_stack]

\* init_session_state's defaults.
defaults ==
  [input_formula   |-> <<>>,
   output_formula  |-> <<>>,
   formula_history |-> <<>>,
   favorites       |-> <<>>,
   compute_result  |-> None,
   compute_error   |-> "",
   compute_mode    |-> "Simplify",
   undo_stack      |-> <<>>,
   redo_stack      |-> <<>>]

\* {'input': ..., 'output': ...} of the current texts.
current_state(s) == [input |-> s.input_formula, output |-> s.output_formula]

\* add_to_history with pop(0) for pop(): over the cap, the newest entry goes.
add_to_history_drops_newest(s, formula) ==
  IF formula # <<>> /\ ~InList(formula, s.formula_history)
  THEN LET inserted == <<formula>> \o s.formula_history
       IN  [s EXCEPT !.formula_history =
              IF Len(inserted) > HistoryCap
              THEN SubSeq(inserted, 2, Len(inserted))
              ELSE inserted]
  ELSE s

\* add_to_history without the "not in formula_history" test.
add_to_history_unchecked(s, formula) ==
  IF formula # <<>>
  THEN LET inserted == <<formula>> \o s.formula_history
       IN  [s EXCEPT !.formula_history =
              IF Len(inserted) > HistoryCap
              THEN SubSeq(inserted, 1, Len(inserted) - 1)
              ELSE inserted]
  ELSE s

add_to_history(s, formula) ==
  IF formula # <<>> /\ ~InList(formula, s.formula_history)
  THEN LET inserted == <<formula>> \o s.formula_history
       IN  [s EXCEPT !.formula_history =
              IF Len(inserted) > HistoryCap
              THEN SubSeq(inserted, 1, Len(inserted) - 1)
              ELSE inserted]
  ELSE s

\* save_state with pop() for pop(0): over the cap, the snapshot just pushed goes.
save_state_drops_newest(s) ==
  LET appended == Append(s.undo_stack, current_state(s))
  IN  [s EXCEPT !.undo_stack =
                  IF Len(appended) > UndoCap
                  THEN SubSeq(appended, 1, Len(appended) - 1)
                  ELSE appended,
                !.redo_stack = <<>>]

save_state(s) ==
  LET appended == Append(s.undo_stack, current_state(s))
  IN  [s EXCEPT !.undo_stack = IF Len(appended) > UndoCap THEN Tail(appended) ELSE appended,
                !.redo_stack = <<>>]

\* The Undo button pushing the snapshot it popped, not the current texts.
undo_button_pushes_popped(s) ==
  IF s.undo_stack # <<>>
  THEN LET state == s.undo_stack[Len(s.undo_stack)]
       IN  [s EXCEPT !.undo_stack = SubSeq(s.undo_stack, 1, Len(s.undo_stack) - 1),
                     !.redo_stack = Append(s.redo_stack, state),
                     !.input_formula = state.input,
                     !.output_formula = state.output]
  ELSE s

\* The Undo button without the "and undo_stack" test, restoring the texts of a
\* new session when there is no snapshot to pop.
undo_button_unguarded(s) ==
  LET state == IF s.undo_stack # <<>>
               THEN s.undo_stack[Len(s.undo_stack)]
               ELSE [input |-> <<>>, output |-> <<>>]
  IN  [s EXCEPT !.undo_stack = SubSeq(s.undo_stack, 1, Len(s.undo_stack) - 1),
                !.redo_stack = Append(s.redo_stack, current_state(s)),
                !.input_formula = state.input,
                !.output_formula = state.output]

\* The Undo button: nothing happens on an empty undo stack.
undo_button(s) ==
  IF s.undo_stack # <<>>
  THEN LET state == s.undo_stack[Len(s.undo_stack)]
       IN  [s EXCEPT !.undo_stack = SubSeq(s.undo_stack, 1, Len(s.undo_stack) - 1),
                     !.redo_stack = Append(s.redo_stack, current_state(s)),
                     !.input_formula = state.input,
                     !.output_formula = state.output]
  ELSE s

\* The Redo button discarding the computation's result with the texts.
redo_button_clears_result(s) ==
  IF s.redo_stack # <<>>
  THEN LET state == s.redo_stack[Len(s.redo_stack)]
       IN  [s EXCEPT !.redo_stack = SubSeq(s.redo_stack, 1, Len(s.redo_stack) - 1),
                     !.undo_stack = Append(s.undo_stack, current_state(s)),
                     !.input_formula = state.input,
                     !.output_formula = state.output,
                     !.compute_result = None,
                     !.compute_error = ""]
  ELSE s

\* The Redo button reading the last redo snapshot without popping it.
redo_button_keeps_snapshot(s) ==
  IF s.redo_stack # <<>>
  THEN LET state == s.redo_stack[Len(s.redo_stack)]
       IN  [s EXCEPT !.undo_stack = Append(s.undo_stack, current_state(s)),
                     !.input_formula = state.input,
                     !.output_formula = state.output]
  ELSE s

\* The Redo button: nothing happens on an empty redo stack.
redo_button(s) ==
  IF s.redo_stack # <<>>
  THEN LET state == s.redo_stack[Len(s.redo_stack)]
       IN  [s EXCEPT !.redo_stack = SubSeq(s.redo_stack, 1, Len(s.redo_stack) - 1),
                     !.undo_stack = Append(s.undo_stack, current_state(s)),
                     !.input_formula = state.input,
                     !.output_formula = state.output]
  ELSE s

\* A "Recent Formulas" or "Favorites" load button, and a template button
\* before its add_to_history: save_state, then both texts become the formula.
load_formula(s, formula) ==
  [save_state(s) EXCEPT !.input_formula = formula, !.output_formula = formula]

\* favorites.pop(i) (i counted from 1 here).
remove_favorite(s, i) ==
  [s EXCEPT !.favorites = SubSeq(s.favorites, 1, i - 1) \o
                          SubSeq(s.favorites, i + 1, Len(s.favorites))]

\* A symbol button that trims the text it has built.
symbol_button_strips(s, latex) ==
  LET saved == save_state(s)
  IN  [saved EXCEPT !.input_formula = strip(saved.input_formula \o latex),
                    !.output_formula = strip(saved.input_formula \o latex)]

\* A symbol button: save_state, the fragment is appended to the input text,
\* and the output text becomes the input text.
symbol_button(s, latex) ==
  LET saved == save_state(s)
  IN  [saved EXCEPT !.input_formula = saved.input_formula \o latex,
                    !.output_formula = saved.input_formula \o latex]

\* The input text area storing an edit in the input text alone.
input_area_keeps_output(s, new_input) ==
  IF new_input # s.input_formula
  THEN [s EXCEPT !.input_formula = new_input]
  ELSE s

\* The input text area reporting an edit (new_input != input_formula).
input_area(s, new_input) ==
  IF new_input # s.input_formula
  THEN [s EXCEPT !.input_formula = new_input, !.output_formula = new_input]
  ELSE s

\* The output text area reporting an edit.
output_area(s, new_output) ==
  IF new_output # s.output_formula
  THEN [s EXCEPT !.output_formula = new_output]
  ELSE s

\* The cursor offsets a symbol button's run reports: the handler saves the
\* state, appends the fragment, copies the text to the output and calls
\* st.rerun(); the text area is then given the text and nothing else, so the
\* run reports no offset, whatever the fragment.
cursor_hints(s, latex) == {}

sync_button(s) ==
  LET saved == save_state(s)
  IN  [saved EXCEPT !.output_formula = saved.input_formula]

\* The Add to Favorites button without the "not in favorites" test.
favorite_button_unchecked(s) ==
  IF s.output_formula # <<>>
  THEN [s EXCEPT !.favorites = Append(s.favorites, s.output_formula)]
  ELSE s

\* The Add to Favorites button: nothing happens for an empty output text or
\* one the favorites hold.
favorite_button(s) ==
  IF s.output_formula # <<>> /\ ~InList(s.output_formula, s.favorites)
  THEN [s EXCEPT !.favorites = Append(s.favorites, s.output_formula)]
  ELSE s

history_button(s) == add_to_history(s, s.output_formula)

clear_all_button(s) ==
  [save_state(s) EXCEPT !.input_formula = <<>>,
                        !.output_formula = <<>>,
                        !.compute_result = None,
                        !.compute_error = ""]

reset_button(s) ==
  [save_state(s) EXCEPT !.input_formula = <<>>, !.output_formula = <<>>]

\* The Compute button whose except branch leaves compute_result as it was.
compute_button_keeps_result(s, mode, outcome) ==
  LET chosen == [s EXCEPT !.compute_mode = mode]
  IN  IF strip(s.output_formula) # <<>>
      THEN IF outcome.ok
           THEN [chosen EXCEPT !.compute_result = outcome.markup, !.compute_error = ""]
           ELSE [chosen EXCEPT !.compute_error = "Computation failed: " \o outcome.message]
      ELSE chosen

\* The Compute button writing the result into the output text as well.
compute_button_writes_output(s, mode, outcome) ==
  LET chosen == [s EXCEPT !.compute_mode = mode]
  IN  IF strip(s.output_formula) # <<>>
      THEN IF outcome.ok
           THEN [chosen EXCEPT !.compute_result = outcome.markup, !.compute_error = "",
                               !.output_formula = outcome.markup]
           ELSE [chosen EXCEPT !.compute_error = "Computation failed: " \o outcome.message,
                               !.compute_result = None]
      ELSE chosen

\* The Compute button, for the mode the select box holds and what the backend
\* does with the text: a blank text only warns; a backend that returns stores
\* sp.latex(result) and clears the error; one that raises stores the message
\* and clears the result.
compute_button(s, mode, outcome) ==
  LET chosen == [s EXCEPT !.compute_mode = mode]
  IN  IF strip(s.output_formula) # <<>>
      THEN IF outcome.ok
           THEN [chosen EXCEPT !.compute_result = outcome.markup, !.compute_error = ""]
           ELSE [chosen EXCEPT !.compute_error = "Computation failed: " \o outcome.message,
                               !.compute_result = None]
      ELSE chosen

\* "Use as New Formula", shown only while compute_result is truthy.
use_result_button(s) ==
  [save_state(s) EXCEPT !.input_formula = s.compute_result,
                        !.output_formula = s.compute_result]

\* A template button.
template_button(s, formula) == add_to_history(load_formula(s, formula), formula)

\* A template's star button.
template_favorite_button(s, formula) ==
  IF ~InList(formula, s.favorites)
  THEN [s EXCEPT !.favorites = Append(s.favorites, formula)]
  ELSE s

(***************************************************************************)
(* Static data of the script, and the inputs the runs draw from.           *)
(***************************************************************************)
\* Fragments of the symbol catalogue: "+ " and "= ".
symbols == {<<"+", " ">>, <<"=", " ">>}

templates ==
  <<
    (* Quadratic Formula *)
    <<"x", " ", "=", " ", "\\", "f", "r", "a", "c", "{", "-", "b", " ", "\\", "p", "m", " ", "\\", "s", "q", "r", "t", "{", "b", "^", "2", " ", "-", " ", "4", "a", "c", "}", "}", "{", "2", "a", "}">>,
    (* Binomial Theorem *)
    <<"(", "a", " ", "+", " ", "b", ")", "^", "n", " ", "=", " ", "\\", "s", "u", "m", "_", "{", "k", "=", "0", "}", "^", "{", "n", "}", " ", "\\", "b", "i", "n", "o", "m", "{", "n", "}", "{", "k", "}", " ", "a", "^", "{", "n", "-", "k", "}", " ", "b", "^", "k">>,
    (* Difference of Squares *)
    <<"a", "^", "2", " ", "-", " ", "b", "^", "2", " ", "=", " ", "(", "a", " ", "+", " ", "b", ")", "(", "a", " ", "-", " ", "b", ")">>,
    (* Perfect Square *)
    <<"(", "a", " ", "\\", "p", "m", " ", "b", ")", "^", "2", " ", "=", " ", "a", "^", "2", " ", "\\", "p", "m", " ", "2", "a", "b", " ", "+", " ", "b", "^", "2">>,
    (* Derivative Definition *)
    <<"f", "'", "(", "x", ")", " ", "=", " ", "\\", "l", "i", "m", "_", "{", "h", " ", "\\", "t", "o", " ", "0", "}", " ", "\\", "f", "r", "a", "c", "{", "f", "(", "x", "+", "h", ")", " ", "-", " ", "f", "(", "x", ")", "}", "{", "h", "}">>,
    (* Fundamental Theorem *)
    <<"\\", "i", "n", "t", "_", "{", "a", "}", "^", "{", "b", "}", " ", "f", "'", "(", "x", ")", " ", "d", "x", " ", "=", " ", "f", "(", "b", ")", " ", "-", " ", "f", "(", "a", ")">>,
    (* Chain Rule *)
    <<"\\", "f", "r", "a", "c", "{", "d", "}", "{", "d", "x", "}", "[", "f", "(", "g", "(", "x", ")", ")", "]", " ", "=", " ", "f", "'", "(", "g", "(", "x", ")", ")", " ", "\\", "c", "d", "o", "t", " ", "g", "'", "(", "x", ")">>,
    (* Integration by Parts *)
    <<"\\", "i", "n", "t", " ", "u", " ", "d", "v", " ", "=", " ", "u", "v", " ", "-", " ", "\\", "i", "n", "t", " ", "v", " ", "d", "u">>,
    (* Normal Distribution *)
    <<"f", "(", "x", ")", " ", "=", " ", "\\", "f", "r", "a", "c", "{", "1", "}", "{", "\\", "s", "i", "g", "m", "a", "\\", "s", "q", "r", "t", "{", "2", "\\", "p", "i", "}", "}", " ", "e", "^", "{", "-", "\\", "f", "r", "a", "c", "{", "1", "}", "{", "2", "}", "\\", "l", "e", "f", "t", "(", "\\", "f", "r", "a", "c", "{", "x", "-", "\\", "m", "u", "}", "{", "\\", "s", "i", "g", "m", "a", "}", "\\", "r", "i", "g", "h", "t", ")", "^", "2", "}">>,
    (* Standard Deviation *)
    <<"\\", "s", "i", "g", "m", "a", " ", "=", " ", "\\", "s", "q", "r", "t", "{", "\\", "f", "r", "a", "c", "{", "1", "}", "{", "N", "}", " ", "\\", "s", "u", "m", "_", "{", "i", "=", "1", "}", "^", "{", "N", "}", " ", "(", "x", "_", "i", " ", "-", " ", "\\", "m", "u", ")", "^", "2", "}">>,
    (* Bayes' Theorem *)
    <<"P", "(", "A", "|", "B", ")", " ", "=", " ", "\\", "f", "r", "a", "c", "{", "P", "(", "B", "|", "A", ")", " ", "P", "(", "A", ")", "}", "{", "P", "(", "B", ")", "}">>,
    (* Central Limit Theorem *)
    <<"\\", "b", "a", "r", "{", "X", "}", " ", "\\", "s", "i", "m", " ", "N", "\\", "l", "e", "f", "t", "(", "\\", "m", "u", ",", " ", "\\", "f", "r", "a", "c", "{", "\\", "s", "i", "g", "m", "a", "^", "2", "}", "{", "n", "}", "\\", "r", "i", "g", "h", "t", ")">>,
    (* Einstein's E=mc? *)
    <<"E", " ", "=", " ", "m", "c", "^", "2">>,
    (* Newton's Second Law *)
    <<"F", " ", "=", " ", "m", "a">>,
    (* Schr?dinger Equation *)
    <<"i", "\\", "h", "b", "a", "r", " ", "\\", "f", "r", "a", "c", "{", "\\", "p", "a", "r", "t", "i", "a", "l", "}", "{", "\\", "p", "a", "r", "t", "i", "a", "l", " ", "t", "}", " ", "\\", "P", "s", "i", " ", "=", " ", "\\", "h", "a", "t", "{", "H", "}", " ", "\\", "P", "s", "i">>,
    (* Wave Equation *)
    <<"\\", "f", "r", "a", "c", "{", "\\", "p", "a", "r", "t", "i", "a", "l", "^", "2", " ", "u", "}", "{", "\\", "p", "a", "r", "t", "i", "a", "l", " ", "t", "^", "2", "}", " ", "=", " ", "c", "^", "2", " ", "\\", "f", "r", "a", "c", "{", "\\", "p", "a", "r", "t", "i", "a", "l", "^", "2", " ", "u", "}", "{", "\\", "p", "a", "r", "t", "i", "a", "l", " ", "x", "^", "2", "}">>,
    (* Pythagorean Theorem *)
    <<"a", "^", "2", " ", "+", " ", "b", "^", "2", " ", "=", " ", "c", "^", "2">>,
    (* Circle Area *)
    <<"A", " ", "=", " ", "\\", "p", "i", " ", "r", "^", "2">>,
    (* Sphere Volume *)
    <<"V", " ", "=", " ", "\\", "f", "r", "a", "c", "{", "4", "}", "{", "3", "}", " ", "\\", "p", "i", " ", "r", "^", "3">>,
    (* Distance Formula *)
    <<"d", " ", "=", " ", "\\", "s", "q", "r", "t", "{", "(", "x", "_", "2", "-", "x", "_", "1", ")", "^", "2", " ", "+", " ", "(", "y", "_", "2", "-", "y", "_", "1", ")", "^", "2", "}">>
  >>

\* The templates offered, and a template's place in the catalogue.
Templates == {templates[i] : i \in 1..NumTemplates}

TemplateIndex(formula) == CHOOSE i \in 1..Len(templates) : templates[i] = formula

\* The options of the "Computation Mode" select box.
Modes ==
  {"Simplify", "Expand", "Factor", "Solve", "Differentiate", "Integrate",
   "Numerical Evaluation"}

\* Texts a user types into a text area: a blank and a formula.
TypedTexts == {<<" ">>, <<"x">>}

\* str(e) of what parse_latex raises, and of what a transform raises.
ParseFailure == [ok |-> FALSE, markup |-> <<>>, message |-> "I don't understand this"]

TransformFailure == [ok |-> FALSE, markup |-> <<>>, message |-> "cannot transform"]

\* A backend call that returns a result sp.latex renders to markup.
Returns(markup) == [ok |-> TRUE, markup |-> markup, message |-> ""]

DigitChar(d) == CHOOSE c \in Digits : DigitValue(c) = d

\* str of a natural number.
RECURSIVE digits(_)
digits(n) == IF n < 10 THEN <<DigitChar(n)>> ELSE digits(n \div 10) \o <<DigitChar(n % 10)>>

\* sp.latex of the Float a whole number evaluates to: "2.0" for 2.
float_latex(n) == digits(n) \o <<".", "0">>

\* The markup of the result for the text "x", which parse_latex turns into the
\* symbol x, with "x" in the Variable field: simplify, expand and factor
\* give x, solve gives the list [0], diff gives 1, integrate gives x^2/2, and
\* Numerical Evaluation gives expr.subs(substitutions).evalf() when the dict
\* is not empty and expr.evalf() when it is: the Float bound to x, or x.
x_result(mode, subs) ==
  CASE mode \in {"Simplify", "Expand", "Factor"} -> <<"x">>
    [] mode = "Solve" ->
         <<"\\", "l", "e", "f", "t", "[", " ", "0", "\\", "r", "i", "g", "h", "t", "]">>
    [] mode = "Differentiate" -> <<"1">>
    [] mode = "Integrate" ->
         <<"\\", "f", "r", "a", "c", "{", "x", "^", "{", "2", "}", "}", "{", "2", "}">>
    [] mode = "Numerical Evaluation" ->
         IF DOMAIN subs # {} /\ <<"x">> \in DOMAIN subs
         THEN float_latex(subs[<<"x">>])
         ELSE <<"x">>

\* A text with an explicit integral: the catalogue's fragment "\int " and the
\* typed "x dx".  parse_latex turns it into Integral(x, x).
IntegralText == <<"\\", "i", "n", "t", " ", "x", " ", "d", "x">>

\* sp.latex of what sp.integrate(expr, sp.Symbol("x")) returns for that expr:
\* the handler integrates whatever parse_latex returned, Integral(expr, x)
\* with an Integral inside is the double integral Integral(x, x, x), and its
\* doit() is x**3/6.
integral_result ==
  <<"\\", "f", "r", "a", "c", "{", "x", "^", "{", "3", "}", "}", "{", "6", "}">>

\* What the try block of the Compute handler may do with a non-blank text.
\* The backend is outside the repository.  It is computed for the text "x";
\* and for the explicit integral in Integrate mode;
\* a text of operators alone ("+ ", "= ") has no operand for parse_latex, which
\* raises; for any other text the outcome is drawn from a set: the backend
\* returns a result, which sp.latex renders to a non-empty markup, or it
\* raises, in parse_latex or in the mode's transform.
BackendOutcomes(text, mode, subs) ==
  IF strip(text) = <<"x">>
  THEN {Returns(x_result(mode, subs))}
  ELSE IF strip(text) = IntegralText /\ mode = "Integrate"
       THEN {Returns(integral_result)}
       ELSE IF \A i \in 1..Len(text) : text[i] \in {"+", "=", " "}
            THEN {ParseFailure}
            ELSE {Returns(<<"2", " ", "x">>), Returns(<<"x">>), ParseFailure,
                  TransformFailure}

\* The characters of a "Variables" text, and the texts up to MaxVarLen.
VarAlphabet == {"x", "2", "=", ",", " "}

VarTexts == UNION {[1..n -> VarAlphabet] : n \in 0..MaxVarLen}

(***************************************************************************)
(* One run of the script.                                                  *)
(***************************************************************************)
\* The run leaves st.session_state as new; the "Variables" text is as it was
\* and the run has parsed it again.
Run(new) ==
  /\ input_formula' = new.input_formula
  /\ output_formula' = new.output_formula
  /\ formula_history' = new.formula_history
  /\ favorites' = new.favorites
  /\ compute_result' = new.compute_result
  /\ compute_error' = new.compute_error
  /\ compute_mode' = new.compute_mode
  /\ undo_stack' = new.undo_stack
  /\ redo_stack' = new.redo_stack
  /\ var_input' = var_input
  /\ substitutions' = parse_variables(var_input).substitutions

Init ==
  /\ input_formula = defaults.input_formula
  /\ output_formula = defaults.output_formula
  /\ formula_history = defaults.formula_history
  /\ favorites = defaults.favorites
  /\ compute_result = defaults.compute_result
  /\ compute_error = defaults.compute_error
  /\ compute_mode = defaults.compute_mode
  /\ undo_stack = defaults.undo_stack
  /\ redo_stack = defaults.redo_stack
  /\ var_input = <<>>
  /\ substitutions = EmptyDict

Undo == Run(undo_button(ss))

Redo == Run(redo_button(ss))

HistoryLoad(i) ==
  /\ i \in 1..Len(formula_history)
  /\ i <= HistoryShown
  /\ Run(load_formula(ss, formula_history[i]))

FavoriteLoad(i) ==
  /\ i \in 1..Len(favorites)
  /\ Run(load_formula(ss, favorites[i]))

FavoriteRemove(i) ==
  /\ i \in 1..Len(favorites)
  /\ Run(remove_favorite(ss, i))

SymbolInsert(latex) == Run(symbol_button(ss, latex))

InputEdit(new_input) ==
  /\ new_input # input_formula
  /\ Run(input_area(ss, new_input))

OutputEdit(new_output) ==
  /\ new_output # output_formula
  /\ Run(output_area(ss, new_output))

Sync == Run(sync_button(ss))

AddToFavorites == Run(favorite_button(ss))

AddToHistory == Run(history_button(ss))

ClearAll == Run(clear_all_button(ss))

Reset == Run(reset_button(ss))

\* The user picks another mode in the select box; the run stores it.
SelectMode(mode) ==
  /\ mode # compute_mode
  /\ Run([ss EXCEPT !.compute_mode = mode])

\* The Compute button: the run has parsed the "Variables" text, and the
\* backend does one of the things it may do.
Compute ==
  \E outcome \in BackendOutcomes(output_formula, compute_mode,
                                 parse_variables(var_input).substitutions) :
    Run(compute_button(ss, compute_mode, outcome))

UseAsNew ==
  /\ Truthy(compute_result)
  /\ Run(use_result_button(ss))

TemplateLoad(formula) == Run(template_button(ss, formula))

TemplateFavorite(formula) == Run(template_favorite_button(ss, formula))

\* The user commits a new "Variables" text; the run parses it.
VarEdit(text) ==
  /\ text # var_input
  /\ var_input' = text
  /\ substitutions' = parse_variables(text).substitutions
  /\ UNCHANGED <<input_formula, output_formula, formula_history, favorites,
                 compute_result, compute_error, compute_mode, undo_stack, redo_stack>>

(***************************************************************************)
(* Specifications.  The handlers above carry no bound; a specification     *)
(* keeps its runs inside the bounds with the conjuncts it adds here.       *)
(***************************************************************************)
\* A symbol insert keeps the buffer within MaxLen characters.
Room(latex) == Len(input_formula) + Len(latex) <= MaxLen

\* The two stacks hold at most MaxDepth snapshots together.
Shallow == Len(undo_stack) + Len(redo_stack) <= MaxDepth

\* The snapshot of two empty texts, and how many other snapshots a stack holds.
EmptySnapshot == [input |-> <<>>, output |-> <<>>]

Varied(stack) == Cardinality({i \in 1..Len(stack) : stack[i] # EmptySnapshot})

\* The two stacks hold at most MaxVaried snapshots of non-empty texts together.
Plain == Varied(undo_stack) + Varied(redo_stack) <= MaxVaried

\* The editor and the dispatcher: every run that reads or writes the texts or
\* the computation's result, with shallow stacks.
Next ==
  \/ Undo
  \/ Redo
  \/ \E latex \in symbols : Room(latex) /\ SymbolInsert(latex) /\ Shallow'
  \/ \E text \in TypedTexts : InputEdit(text)
  \/ \E text \in TypedTexts : OutputEdit(text)
  \/ Sync /\ Shallow'
  \/ ClearAll /\ Shallow'
  \/ Reset /\ Shallow'
  \/ \E mode \in Modes : SelectMode(mode)
  \/ Compute
  \/ UseAsNew /\ Shallow'

Spec == Init /\ [][Next]_vars

\* The undo and redo stacks at their full depth: the runs that call save_state
\* on the buffer alone, and Undo and Redo.
NextUndo ==
  \/ Undo /\ Plain'
  \/ Redo /\ Plain'
  \/ \E latex \in symbols : Room(latex) /\ SymbolInsert(latex) /\ Plain'
  \/ Shallow /\ \E text \in TypedTexts : OutputEdit(text)
  \/ Sync /\ Plain'
  \/ ClearAll /\ Plain'
  \/ Reset /\ Plain'

SpecUndo == Init /\ [][NextUndo]_vars

\* The history at its full length: templates loaded in catalogue order, each
\* one later in the catalogue than every formula the history holds.
Newer(formula) ==
  \A i \in 1..Len(formula_history) :
    TemplateIndex(formula) > TemplateIndex(formula_history[i])

NextHistory ==
  \/ \E formula \in Templates : Newer(formula) /\ TemplateLoad(formula)
  \/ AddToHistory

SpecHistory == Init /\ [][NextHistory]_vars

\* The "Variables" text: committed once, then evaluated against the text "x".
NextSubst ==
  \/ var_input = <<>> /\ \E text \in VarTexts : VarEdit(text)
  \/ InputEdit(<<"x">>)
  \/ SelectMode("Numerical Evaluation")
  \/ compute_mode = "Numerical Evaluation" /\ Compute

SpecSubst == Init /\ [][NextSubst]_vars

\* The templates whose star button is clicked.
Starred == {templates[i] : i \in 1..NumStarred}

\* No snapshot is on the undo stack: a load waits for the Undo of the last one.
Fresh == undo_stack = <<>>

\* The favorites: added from the output text and from the templates' stars,
\* removed, loaded, and the loads undone and redone; with them the history,
\* which the load of the first template fills, and the computation's result.
NextFavorites ==
  \/ \E formula \in Starred : TemplateFavorite(formula)
  \/ \E text \in TypedTexts : OutputEdit(text)
  \/ AddToFavorites
  \/ \E i \in 1..Len(favorites) : FavoriteRemove(i)
  \/ \E i \in 1..Len(favorites) : Fresh /\ FavoriteLoad(i)
  \/ Fresh /\ TemplateLoad(templates[1])
  \/ Compute
  \/ Undo
  \/ Redo

SpecFavorites == Init /\ [][NextFavorites]_vars

\* Texts typed for the dispatcher: a symbol and an explicit integral.
IntegrandTexts == {<<"x">>, IntegralText}

\* The dispatcher on these texts, in every mode.
NextIntegral ==
  \/ \E text \in IntegrandTexts : InputEdit(text)
  \/ \E text \in IntegrandTexts : OutputEdit(text)
  \/ \E mode \in Modes : SelectMode(mode)
  \/ Compute

SpecIntegral == Init /\ [][NextIntegral]_vars

\* A session in which the output text area is never edited: every other run
\* that sets a text, with shallow stacks, and the first template as the
\* formula of the history and of the favorites.
NextInput ==
  \/ Undo
  \/ Redo
  \/ \E latex \in symbols : Room(latex) /\ SymbolInsert(latex) /\ Shallow'
  \/ \E text \in TypedTexts : InputEdit(text)
  \/ Sync /\ Shallow'
  \/ ClearAll /\ Shallow'
  \/ Reset /\ Shallow'
  \/ Compute
  \/ UseAsNew /\ Shallow'
  \/ TemplateLoad(templates[1]) /\ Shallow'
  \/ TemplateFavorite(templates[1])
  \/ \E i \in 1..Len(formula_history) : HistoryLoad(i) /\ Shallow'
  \/ \E i \in 1..Len(favorites) : FavoriteLoad(i) /\ Shallow'

SpecInput == Init /\ [][NextInput]_vars

(***************************************************************************)
(* Properties.                                                             *)
(***************************************************************************)
\* The last n elements of a sequence (all of it when it is shorter).
LastN(seq, n) == SubSeq(seq, Max({1, Len(seq) - n + 1}), Len(seq))

Reverse(seq) == [i \in 1..Len(seq) |-> seq[Len(seq) + 1 - i]]

\* What the session may be after a run that calls save_state and then sets
\* the texts: a symbol button, Sync, Clear All, Reset, a history, favorite or
\* template load, Use as New Formula.
Mutations(s) ==
  {symbol_button(s, latex) : latex \in symbols}
    \cup {sync_button(s), clear_all_button(s), reset_button(s)}
    \cup {load_formula(s, formula) : formula \in TypedTexts}
    \cup {template_button(s, formula) : formula \in Templates}
    \cup (IF Truthy(s.compute_result) THEN {use_result_button(s)} ELSE {})

\* C1: in every reachable state S0, after any run that pushes a snapshot with
\* save_state and sets the texts to S1, Undo gives back the input and output
\* text of S0, and Redo right after it gives back those of S1 and leaves both
\* stacks as they were before the Undo.
C1_UndoRedoSymmetry ==
  \A s1 \in Mutations(ss) :
    LET undone == undo_button(s1)
        redone == redo_button(undone)
    IN  /\ undone.input_formula = input_formula
        /\ undone.output_formula = output_formula
        /\ redone.input_formula = s1.input_formula
        /\ redone.output_formula = s1.output_formula
        /\ redone.undo_stack = s1.undo_stack
        /\ redone.redo_stack = s1.redo_stack

\* An Undo has acted on full stacks: twenty snapshots, the latest on the redo
\* stack holding other texts than the ones restored.
C1_Witness ==
  /\ Len(undo_stack) = UndoCap - 1
  /\ Len(redo_stack) = 1
  /\ redo_stack[1] # current_state(ss)

\* C2: the undo stack never holds more than 20 snapshots, whatever save_state,
\* Undo and Redo did; a save_state keeps the 20 most recent of the snapshots
\* held and the one pushed, in push order, and leaves the redo stack empty.
C2_UndoCap ==
  /\ Len(undo_stack) <= UndoCap
  /\ LET saved == save_state(ss)
     IN  /\ saved.undo_stack = LastN(Append(undo_stack, current_state(ss)), UndoCap)
         /\ saved.redo_stack = <<>>

\* A full undo stack whose oldest snapshot has a non-empty input text: the
\* first snapshot ever pushed has an empty one, so the oldest was dropped.
C2_Witness ==
  /\ Len(undo_stack) = UndoCap
  /\ undo_stack[1].input # <<>>

\* The templates loaded so far, oldest first, under SpecHistory: every load
\* pushed the texts before it, so they are the inputs of the snapshots after
\* the first, and the current input.
Loaded ==
  IF undo_stack = <<>>
  THEN <<>>
  ELSE Tail([i \in 1..Len(undo_stack) |-> undo_stack[i].input]) \o <<input_formula>>

\* C3: the history never holds more than 10 entries, and holds the formulas
\* added, newest first, but only the 10 most recently added: the oldest is the
\* one evicted.
C3_HistoryCap ==
  /\ Len(formula_history) <= HistoryCap
  /\ formula_history = Reverse(LastN(Loaded, HistoryCap))

\* More than ten distinct templates have been added.
C3_Witness ==
  /\ Len(Loaded) > HistoryCap
  /\ Len(formula_history) = HistoryCap

\* C4: add_to_history leaves the history as it is for the empty text and for a
\* text the history holds, and puts any other text first; the history holds no
\* empty text and no text twice.
C4_AddToHistory ==
  /\ \A i \in 1..Len(formula_history) : formula_history[i] # <<>>
  /\ \A i, j \in 1..Len(formula_history) :
       formula_history[i] = formula_history[j] => i = j
  /\ \A formula \in Templates \cup TypedTexts \cup {<<>>} :
       LET after == add_to_history(ss, formula).formula_history
       IN  IF formula = <<>> \/ InList(formula, formula_history)
           THEN after = formula_history
           ELSE after[1] = formula

\* A load has put its template first in a history of several, and the output
\* text is now one the Add to History button would find there.
C4_Witness ==
  /\ Len(formula_history) >= 2
  /\ formula_history[1] = output_formula

\* The run is one of the buffer mutations: a symbol insert, an edit of the
\* input text area, Clear All or Reset.
BufferMutation ==
  \/ \E latex \in symbols : ss' = symbol_button(ss, latex)
  \/ \E text \in TypedTexts : text # input_formula /\ ss' = input_area(ss, text)
  \/ ss' = clear_all_button(ss)
  \/ ss' = reset_button(ss)

\* C5: a buffer mutation in a state that holds a Success result leaves the
\* stored result cleared.
C5_StaleResult ==
  [][(Truthy(compute_result) /\ BufferMutation) => compute_result' = None]_vars

\* What Compute may leave the session as, in the current state.
Computed ==
  {compute_button(ss, compute_mode, outcome) :
     outcome \in BackendOutcomes(output_formula, compute_mode,
                                 parse_variables(var_input).substitutions)}

\* C6: compute_result and compute_error are never both set, and a Compute
\* that runs (on a non-blank text) leaves exactly one of them set.
C6_Exclusive ==
  /\ ~(compute_result # None /\ compute_error # "")
  /\ strip(output_formula) # <<>> =>
       \A c \in Computed : (c.compute_result # None) # (c.compute_error # "")

\* A Failure has replaced a Success: the result was used as the new formula,
\* and an error is stored now.
C6_Witness ==
  /\ input_formula = <<"1">>
  /\ compute_error # ""
  /\ compute_result = None

\* C7: after Compute, on any text and in any mode, either the backend's new
\* markup is the stored result, or no result is stored and a failure has been
\* reported (the error message, or the warning a blank text gets).
C7_ComputeReplaces ==
  \A outcome \in BackendOutcomes(output_formula, compute_mode,
                                 parse_variables(var_input).substitutions) :
    LET c == compute_button(ss, compute_mode, outcome)
    IN  \/ outcome.ok /\ c.compute_result = outcome.markup /\ c.compute_error = ""
        \/ /\ c.compute_result = None
           /\ c.compute_error # "" \/ strip(output_formula) = <<>>

\* The run stored a new result or a new error message: only Compute does.
Stored ==
  \/ compute_result' # compute_result /\ compute_result' # None
  \/ compute_error' # compute_error /\ compute_error' # ""

\* C8: a Compute, whatever its outcome, leaves the input text, the output
\* text, both stacks, the history and the favorites as they were.
C8_ComputeFrame ==
  [][Stored => UNCHANGED <<input_formula, output_formula, undo_stack, redo_stack,
                           formula_history, favorites>>]_vars

\* A Compute has failed on texts that differ, with a snapshot on the undo stack.
C8_Witness ==
  /\ compute_error # ""
  /\ undo_stack # <<>>
  /\ input_formula # output_formula

\* The pairs of a "Variables" text.
Pairs(text) == {split(text, ",")[i] : i \in 1..Len(split(text, ","))}

\* A Numerical Evaluation has run on the text "x".
Evaluated ==
  /\ compute_mode = "Numerical Evaluation"
  /\ output_formula = <<"x">>
  /\ compute_result # None \/ compute_error # ""

\* C9: when a pair of the "Variables" text has a right side that is no number,
\* the mapping a Numerical Evaluation uses holds none of the pairs.
C9_AllOrNothing ==
  (/\ Evaluated
   /\ \E pair \in Pairs(var_input) :
        contains(pair, "=") /\ ~float_ok(strip(split_first(pair, "=")[2])))
    => DOMAIN substitutions = {}

\* C10: when a pair of the "Variables" text has no "=", the resolution yields
\* no mapping.
C10_MissingEquals ==
  (/\ Evaluated
   /\ \E pair \in Pairs(var_input) : strip(pair) # <<>> /\ ~contains(pair, "="))
    => DOMAIN substitutions = {}

\* The run is one of the actions that change the input or the output text: a
\* buffer mutation, an edit of the output text area, Sync, Use as New Formula,
\* or the load of a history entry, a favorite or a template.
TextMutation ==
  \/ BufferMutation
  \/ \E text \in TypedTexts : text # output_formula /\ ss' = output_area(ss, text)
  \/ ss' = sync_button(ss)
  \/ Truthy(compute_result) /\ ss' = use_result_button(ss)
  \/ \E i \in 1..Min({Len(formula_history), HistoryShown}) :
       ss' = load_formula(ss, formula_history[i])
  \/ \E i \in 1..Len(favorites) : ss' = load_formula(ss, favorites[i])
  \/ \E formula \in Templates : ss' = template_button(ss, formula)

\* C11: every action that changes the input or the output text pushes the
\* texts held before it onto the undo stack, so that an Undo right after it
\* gives both texts back.
C11_SnapshotOnMutation ==
  [][TextMutation =>
       /\ undo_stack' # <<>>
       /\ undo_stack'[Len(undo_stack')] = current_state(ss)
       /\ undo_button(ss').input_formula = input_formula
       /\ undo_button(ss').output_formula = output_formula]_vars

\* C12: after every action that changes the input or the output text (Undo
\* and Redo are not among them), the redo stack is empty.
C12_LinearHistory ==
  [][TextMutation => redo_stack' = <<>>]_vars

\* favorites without its entry at position i.
Without(list, i) ==
  [j \in 1..(Len(list) - 1) |-> IF j < i THEN list[j] ELSE list[j + 1]]

\* C16: the Add to Favorites button leaves the favorites as they are for an
\* empty output text and for one they hold, and appends any other; a
\* template's star does the same with the template's formula; a removal
\* deletes the entry at its position and keeps the others in order; the
\* favorites hold no empty text and no text twice.
C16_Favorites ==
  /\ \A i \in 1..Len(favorites) : favorites[i] # <<>>
  /\ \A i, j \in 1..Len(favorites) : favorites[i] = favorites[j] => i = j
  /\ favorite_button(ss).favorites =
       IF output_formula = <<>> \/ InList(output_formula, favorites)
       THEN favorites
       ELSE favorites \o <<output_formula>>
  /\ \A formula \in Starred :
       template_favorite_button(ss, formula).favorites =
         IF InList(formula, favorites) THEN favorites ELSE favorites \o <<formula>>
  /\ \A i \in 1..Len(favorites) : remove_favorite(ss, i).favorites = Without(favorites, i)

\* Favorites added from both buttons, a typed text first, and an output text
\* the Add to Favorites button would find among them.
C16_Witness ==
  /\ Len(favorites) >= 3
  /\ favorites[1] \in TypedTexts
  /\ \E formula \in Starred : InList(formula, favorites)
  /\ InList(output_formula, favorites)

\* C13: Undo on an empty undo stack, and Redo on an empty redo stack, leave
\* the whole session state as it is: both texts, both stacks, the result and
\* the error, the history and the favorites.
C13_EmptyStackNoOp ==
  /\ undo_stack = <<>> => undo_button(ss) = ss
  /\ redo_stack = <<>> => redo_button(ss) = ss

\* The undo stack is empty after an Undo, with something in every other part
\* of the session for an Undo to leave alone.
C13_Witness ==
  /\ undo_stack = <<>>
  /\ redo_stack # <<>>
  /\ output_formula # <<>>
  /\ favorites # <<>>
  /\ formula_history # <<>>
  /\ compute_error # ""

\* C14: from any buffer text t, a symbol insert of a followed by one of b
\* leaves the text t followed by a followed by b, character for character.
C14_InsertConcatenation ==
  \A a, b \in symbols :
    LET first == symbol_button(ss, a)
        second == symbol_button(first, b)
    IN  /\ first.input_formula = input_formula \o a
        /\ second.input_formula = input_formula \o a \o b
        /\ second.output_formula = input_formula \o a \o b

\* Two inserts in a row have built "+ = ": the snapshot pushed by the second
\* holds the text the first one built.
C14_Witness ==
  /\ input_formula = <<"+", " ", "=", " ">>
  /\ Len(undo_stack) >= 2
  /\ undo_stack[Len(undo_stack)].input = <<"+", " ">>
  /\ undo_stack[Len(undo_stack) - 1].input = <<>>

\* C15: Clear All on the state Clear All leaves gives that state again, in
\* every component of the session, the undo stack among them.
C15_IdempotentClear ==
  clear_all_button(clear_all_button(ss)) = clear_all_button(ss)

\* C17: a Numerical Evaluation of the text "x" under a mapping that does not
\* bind x stores no Success result.
C17_UnboundFails ==
  (Evaluated /\ <<"x">> \notin DOMAIN substitutions) => compute_result = None

\* The error the handler stores for a failure of the mode's transform: the
\* dispatcher's ComputationError with the backend's message.
ComputationError(message) == "Computation failed: " \o message

\* C18: the error a Compute stores when parse_latex rejects the text is not
\* the ComputationError a failed transform with that message would store.
C18_ParseErrorClassified ==
  strip(output_formula) # <<>> =>
    \A outcome \in BackendOutcomes(output_formula, compute_mode,
                                   parse_variables(var_input).substitutions) :
      outcome = ParseFailure =>
        compute_button(ss, compute_mode, outcome).compute_error
          # ComputationError(outcome.message)

\* C19: a stored error message is removed only by a run that stores a Success
\* result.
C19_ErrorPersists ==
  [][(compute_error # "" /\ compute_error' = "") => Truthy(compute_result')]_vars

\* Fragments with the placeholder marker "^{}", as a catalogue may hold them.
PlaceholderFragments ==
  {<<"x", "^", "{", "}">>, <<"^", "{", "}", "_", "{", "}">>,
   <<"e", "^", "{", "}", " ", "x", "^", "{", "}">>}

\* Where the marker "^{}" starts in a fragment (counted from 1).
MarkerStarts(fragment) ==
  {i \in 1..(Len(fragment) - 2) : SubSeq(fragment, i, i + 2) = <<"^", "{", "}">>}

\* The offset (counted from 0) right after the "^{" of the last marker.
PlaceholderOffset(fragment) == Max(MarkerStarts(fragment)) + 1

DirectEvaluation ==
  <<"\\", "f", "r", "a", "c", "{", "x", "^", "{", "2", "}", "}", "{", "2", "}">>

\* C21: in Integrate mode, a Compute on a text that is an explicit integral
\* stores that integral evaluated, not integrated once more.
C21_NoDoubleIntegration ==
  (compute_mode = "Integrate" /\ strip(output_formula) = IntegralText) =>
    \A c \in Computed : c.compute_result = DirectEvaluation

\* C22: the two stacks never hold more than 20 snapshots together: save_state
\* leaves at most 20 on the undo stack and none on the redo stack, an Undo
\* moves one snapshot's place from the undo stack to the redo stack, and a
\* Redo one from the redo stack to the undo stack.
C22_CombinedCap ==
  /\ Len(undo_stack) + Len(redo_stack) <= UndoCap
  /\ Len(save_state(ss).undo_stack) <= UndoCap
  /\ Len(save_state(ss).redo_stack) = 0
  /\ undo_stack # <<>> =>
       /\ Len(undo_button(ss).undo_stack) = Len(undo_stack) - 1
       /\ Len(undo_button(ss).redo_stack) = Len(redo_stack) + 1
  /\ redo_stack # <<>> =>
       /\ Len(redo_button(ss).undo_stack) = Len(undo_stack) + 1
       /\ Len(redo_button(ss).redo_stack) = Len(redo_stack) - 1

\* Twenty snapshots, several of them on each stack: a full undo stack, and
\* Undo clicked more than once.
C22_Witness ==
  /\ Len(undo_stack) + Len(redo_stack) = UndoCap
  /\ Len(undo_stack) >= 2
  /\ Len(redo_stack) >= 2

\* C23: as long as the output text area is not edited, the input text and the
\* output text are equal, and so are the two texts of every snapshot that
\* Undo and Redo may restore.
C23_TextsAgree ==
  /\ input_formula = output_formula
  /\ \A i \in 1..Len(undo_stack) : undo_stack[i].input = undo_stack[i].output
  /\ \A i \in 1..Len(redo_stack) : redo_stack[i].input = redo_stack[i].output

\* An Undo has given back a typed text that the load of a template replaced.
C23_Witness ==
  /\ input_formula = <<"x">>
  /\ output_formula = <<"x">>
  /\ redo_stack # <<>>
  /\ redo_stack[1].input = templates[1]

\* C24: an Undo and a Redo leave the computation's result, its error message,
\* the history and the favorites as they were, whatever the stacks hold.
C24_UndoRedoFrame ==
  \A after \in {undo_button(ss), redo_button(ss)} :
    /\ after.compute_result = compute_result
    /\ after.compute_error = compute_error
    /\ after.formula_history = formula_history
    /\ after.favorites = favorites

\* An Undo has acted, and a Redo has a snapshot to restore, in a session that
\* holds a Success result, a history and several favorites.
C24_Witness ==
  /\ redo_stack # <<>>
  /\ redo_stack[1].output # output_formula
  /\ Truthy(compute_result)
  /\ formula_history # <<>>
  /\ Len(favorites) >= 2
====
